---- MODULE Spec2Model ----
(***************************************************************************)
(* Model of extractor_oiv_public.py: procesar_documento loads a PDF once,  *)
(* runs one model invocation per entry of TAREAS_EXTRACCION, stores one    *)
(* DataFrame per task in resultados_dfs and writes them to one workbook.   *)
(* The PDF loader, the model client, pydantic and pandas are external; the *)
(* model follows their documented behaviour at the places the code calls   *)
(* them.                                                                   *)
(***************************************************************************)
EXTENDS Integers, Sequences, FiniteSets, TLC

\* ------------------------------------------------------------------------
\* Bounds of the model
\* ------------------------------------------------------------------------
\* largest number of items in one model response
MaxItems == 2

\* Numbers of items a response carries: none, one, and the largest.
Cantidades == { 0, 1, MaxItems }

\* ------------------------------------------------------------------------
\* Static configuration
\* ------------------------------------------------------------------------
\* The registry: ids and (abbreviated, ASCII) descriptions, in source order.
TAREAS_EXTRACCION ==
  << [id |-> "I_Sector_Electrico",    descripcion |-> "I. generacion, transmision o distribucion electrica"],
     [id |-> "II_Telecomunicaciones", descripcion |-> "II. servicios de telecomunicaciones"],
     [id |-> "III_Digital",           descripcion |-> "III. infraestructura digital"],
     [id |-> "IV_Financiero",         descripcion |-> "IV. banca, servicios financieros y medios de pago"],
     [id |-> "V_Salud",               descripcion |-> "V. prestacion institucional de salud"],
     [id |-> "VI_EmpresasEstado",     descripcion |-> "VI. Empresas del Estado"],
     [id |-> "VII_OrganismosEstado",  descripcion |-> "VII. Organismos de la Administracion del Estado"] >>

NTareas == Len(TAREAS_EXTRACCION)

\* Fields of FilaEmpresa in declaration order; item.dict() yields them in
\* this order and pd.DataFrame(list of dicts) takes its columns from it.
CamposFilaEmpresa == << "numero", "razon_social", "rut", "domicilio" >>

\* Column list of the fallback DataFrame built in the except branch.
ColumnasFallback == << "numero", "razon_social", "rut", "domicilio" >>

\* ------------------------------------------------------------------------
\* JSON values of a model response and their validation (pydantic)
\* ------------------------------------------------------------------------
\* A JSON field is absent, null, a string or a number.
Ausente == [t |-> "ausente", v |-> ""]
Nulo    == [t |-> "null",    v |-> ""]
Str(s)  == [t |-> "str",     v |-> s]
Num(s)  == [t |-> "num",     v |-> s]

\* Python value of a validated field: None or a str.
PyNone   == [t |-> "None", v |-> ""]
PyStr(s) == [t |-> "pystr", v |-> s]

\* Result of validating one field: ok with a value, or a validation error.
Ok(val) == [ok |-> TRUE,  val |-> val]
Err     == [ok |-> FALSE, val |-> PyNone]

\* The pydantic major versions the unpinned import can resolve to.
VersionesPydantic == {1, 2}

\* A field declared `str = Field(description=...)`: required, not nullable.
\* pydantic 1 coerces a number to str; pydantic 2 rejects it.
ValidarStrRequerido(j, ver) ==
  CASE j.t = "str"     -> Ok(PyStr(j.v))
    [] j.t = "num"     -> IF ver = 1 THEN Ok(PyStr(j.v)) ELSE Err
    [] j.t = "null"    -> Err
    [] j.t = "ausente" -> Err

\* A field declared `Optional[str] = Field(description=...)` with no
\* default: nullable in both versions; pydantic 1 gives it the implicit
\* default None, pydantic 2 keeps it required (type coercion as for str).
ValidarNumero(j, ver) ==
  CASE j.t = "str"     -> Ok(PyStr(j.v))
    [] j.t = "num"     -> IF ver = 1 THEN Ok(PyStr(j.v)) ELSE Err
    [] j.t = "null"    -> Ok(PyNone)
    [] j.t = "ausente" -> IF ver = 1 THEN Ok(PyNone) ELSE Err

\* FilaEmpresa validation of one JSON object.
FilaEmpresa(obj, ver) ==
  LET n == ValidarNumero(obj.numero, ver)
      r == ValidarStrRequerido(obj.razon_social, ver)
      u == ValidarStrRequerido(obj.rut, ver)
      d == ValidarStrRequerido(obj.domicilio, ver)
  IN  IF n.ok /\ r.ok /\ u.ok /\ d.ok
        THEN Ok([numero |-> n.val, razon_social |-> r.val,
                 rut |-> u.val, domicilio |-> d.val])
        ELSE Err

\* SeccionIndividual validation: every item must validate.
SeccionIndividual(items, ver) ==
  IF \A k \in 1..Len(items) : FilaEmpresa(items[k], ver).ok
    THEN Ok([k \in 1..Len(items) |-> FilaEmpresa(items[k], ver).val])
    ELSE Err

\* ------------------------------------------------------------------------
\* pandas values
\* ------------------------------------------------------------------------
\* A DataFrame: its column labels and its rows (one cell per column).
\* Variant: pd.DataFrame() without the columns argument.
DataFrameVacioSinColumnas(cols) == [columns |-> << >>, rows |-> << >>]

\* pd.DataFrame(columns=cols): the labels and no row.
DataFrameVacio(cols) == [columns |-> cols, rows |-> << >>]

\* Variant: the columns taken in sorted key order instead of field order.
CamposOrdenados == << "domicilio", "numero", "razon_social", "rut" >>

DataFrameDeDictsOrdenado(data) ==
  IF Len(data) = 0
    THEN [columns |-> << >>, rows |-> << >>]
    ELSE [columns |-> CamposOrdenados,
          rows    |-> [k \in 1..Len(data) |->
                        [c \in 1..Len(CamposOrdenados) |->
                           data[k][CamposOrdenados[c]]]]]

\* pd.DataFrame(data) for a list of dicts that all have the keys of
\* CamposFilaEmpresa: an empty list gives a frame with no columns at all.
DataFrameDeDicts(data) ==
  IF Len(data) = 0
    THEN [columns |-> << >>, rows |-> << >>]
    ELSE [columns |-> CamposFilaEmpresa,
          rows    |-> [k \in 1..Len(data) |->
                        [c \in 1..Len(CamposFilaEmpresa) |->
                           data[k][CamposFilaEmpresa[c]]]]]

\* A cell of the worksheet: None is written as an empty cell.
Celda(v) == IF v.t = "None" THEN [t |-> "vacia", v |-> ""]
                            ELSE [t |-> "texto", v |-> v.v]

\* df.to_excel(writer, sheet_name=..., index=False): the header row (the
\* column labels) and one row per DataFrame row.
Hoja(nombre, df) ==
  [nombre     |-> nombre,
   encabezado |-> df.columns,
   filas      |-> [k \in 1..Len(df.rows) |->
                    [c \in 1..Len(df.rows[k]) |-> Celda(df.rows[k][c])]]]

\* ------------------------------------------------------------------------
\* Python dict with insertion order, as a sequence of <<key, value>> entries
\* ------------------------------------------------------------------------
Claves(d) == [k \in 1..Len(d) |-> d[k].clave]

TieneClave(d, c) == \E k \in 1..Len(d) : d[k].clave = c

Valor(d, c) == d[CHOOSE k \in 1..Len(d) : d[k].clave = c].valor

\* Variant: the dict is rebuilt with the one entry, d = {c: v}.
AsignarReemplazando(d, c, v) == << [clave |-> c, valor |-> v] >>

\* d[c] = v: an existing key keeps its position, a new key goes last.
Asignar(d, c, v) ==
  IF TieneClave(d, c)
    THEN [k \in 1..Len(d) |-> IF d[k].clave = c
                                THEN [clave |-> c, valor |-> v] ELSE d[k]]
    ELSE Append(d, [clave |-> c, valor |-> v])

\* Variant: frames without rows are skipped when writing.
EntradasConFilas(d) == SelectSeq(d, LAMBDA e : Len(e.valor.rows) > 0)

LibroSinVacias(d) ==
  [k \in 1..Len(EntradasConFilas(d)) |->
     Hoja(EntradasConFilas(d)[k].clave, EntradasConFilas(d)[k].valor)]

\* The workbook written by the loop over resultados_dfs.items().
Libro(d) == [k \in 1..Len(d) |-> Hoja(d[k].clave, d[k].valor)]

\* ------------------------------------------------------------------------
\* The external collaborators' possible behaviours
\* ------------------------------------------------------------------------
\* Text the loader produces for the PDF.
Textos == { "texto_del_pdf" }

\* The well-formed JSON object at position k of a response: the first one
\* carries a null numero, the others a string numero.
Registro(k) ==
  [numero       |-> IF k = 1 THEN Nulo ELSE Str(ToString(k)),
   razon_social |-> Str("rs" \o ToString(k)),
   rut          |-> Str("rut" \o ToString(k)),
   domicilio    |-> Str("dom" \o ToString(k))]

\* The n well-formed objects, and the same list with one key left out.
Items(n) == [k \in 1..n |-> Registro(k)]

SinCampo(items, pos, campo) ==
  [k \in 1..Len(items) |->
     IF k = pos THEN [items[k] EXCEPT ![campo] = Ausente] ELSE items[k]]

\* Exceptions the model client raises out of chain.invoke.
ErroresCliente == { "transporte", "autenticacion", "timeout" }

\* What chain.invoke meets: an exception of the client, a text that is not
\* JSON, or a JSON object with an items list.
Respuestas ==
  { [tipo |-> "excepcion", causa |-> e, items |-> << >>] : e \in ErroresCliente }
  \cup { [tipo |-> "no_json", causa |-> "", items |-> << >>] }
  \cup { [tipo |-> "json", causa |-> "", items |-> Items(n)] : n \in Cantidades }
  \cup { [tipo |-> "json", causa |-> "", items |-> SinCampo(Items(n), pos, campo)] :
           n \in Cantidades \ {0}, pos \in 1..MaxItems,
           campo \in { "razon_social", "rut", "domicilio" } }
  \cup { [tipo |-> "json", causa |-> "", items |-> SinCampo(Items(n), 1, "numero")] :
           n \in Cantidades \ {0} }

\* chain.invoke(...) = prompt | llm | parser: the value returned, or the
\* exception raised by the client or by the parser.
Invoke(resp, ver) ==
  CASE resp.tipo = "excepcion" -> [ok |-> FALSE, causa |-> resp.causa, items |-> << >>]
    [] resp.tipo = "no_json"   -> [ok |-> FALSE, causa |-> "esquema", items |-> << >>]
    [] resp.tipo = "json"      ->
         LET r == SeccionIndividual(resp.items, ver)
         IN  IF r.ok THEN [ok |-> TRUE,  causa |-> "", items |-> r.val]
                     ELSE [ok |-> FALSE, causa |-> "esquema", items |-> << >>]

\* The body of the try/except of one iteration: the DataFrame stored for
\* the task.
DataFrameDeTarea(res) ==
  IF res.ok THEN DataFrameDeDicts(res.items)
            ELSE DataFrameVacio(ColumnasFallback)

\* ------------------------------------------------------------------------
\* State
\* ------------------------------------------------------------------------
VARIABLES
  pc,             \* position in procesar_documento
  pydantic,       \* major version of the installed pydantic
  full_text,      \* text of the document, "" before the load
  i,              \* index in TAREAS_EXTRACCION of the current iteration
  resultados_dfs, \* dict sector_id -> DataFrame
  respuesta,      \* what the backend answered in the current iteration
  ultimo,         \* how the latest chain.invoke ended
  prompt,         \* variables passed to the latest chain.invoke
  estado,         \* per task: its phase and the items the parser returned
  archivo,        \* the output workbook
  retorno,        \* how procesar_documento left: "en_curso", "normal", "excepcion"
  consola,        \* class of the latest status line printed
  cargas,         \* number of loader.load() calls
  invocaciones,   \* number of chain.invoke calls, per task index
  pausas,         \* number of time.sleep(1) calls
  escrituras      \* number of times the ExcelWriter block was entered

vars == << pc, pydantic, full_text, i, resultados_dfs, respuesta, ultimo,
           prompt, estado, archivo, retorno, consola, cargas, invocaciones,
           pausas, escrituras >>

SinArchivo   == [estado |-> "ninguno", hojas |-> << >>]
SinPrompt    == [descripcion |-> "", text |-> ""]
SinRespuesta == [tipo |-> "ninguna", causa |-> "", items |-> << >>]
Pendiente    == [fase |-> "pendiente", items |-> << >>]

Init ==
  /\ pc = "cargar"
  /\ pydantic \in VersionesPydantic
  /\ full_text = ""
  /\ i = 1
  /\ resultados_dfs = << >>
  /\ respuesta = SinRespuesta
  /\ ultimo = "ninguno"
  /\ prompt = SinPrompt
  /\ estado = [k \in 1..NTareas |-> Pendiente]
  /\ archivo = SinArchivo
  /\ retorno = "en_curso"
  /\ consola = "cargando"
  /\ cargas = 0
  /\ invocaciones = [k \in 1..NTareas |-> 0]
  /\ pausas = 0
  /\ escrituras = 0

\* ------------------------------------------------------------------------
\* Steps of procesar_documento
\* ------------------------------------------------------------------------
\* Variant: the except branch of the load without its return.
PcTrasErrorCargaSinReturn == "configurar"

\* The except branch of the load: print and return.
PcTrasErrorCarga == "fin"

\* try: loader.load(); join the pages / except: print, return.
Cargar ==
  /\ pc = "cargar"
  /\ cargas' = cargas + 1
  /\ \/ \E t \in Textos :
          /\ full_text' = t
          /\ consola' = "cargado"
          /\ pc' = "configurar"
          /\ retorno' = retorno
     \/ /\ full_text' = full_text
        /\ consola' = "error_carga"
        /\ pc' = PcTrasErrorCarga
        /\ retorno' = IF PcTrasErrorCarga = "fin" THEN "normal" ELSE retorno
  /\ UNCHANGED << pydantic, i, resultados_dfs, respuesta, ultimo, prompt,
                  estado, archivo, invocaciones, pausas, escrituras >>

\* llm = ChatGoogleGenerativeAI(...); parser = PydanticOutputParser(...);
\* resultados_dfs = {}.  Neither constructor call is inside a try: an
\* exception raised by one of them leaves procesar_documento.
Configurar ==
  /\ pc = "configurar"
  /\ \/ /\ pc' = IF NTareas >= 1 THEN "invocar" ELSE "guardar"
        /\ resultados_dfs' = << >>
        /\ retorno' = retorno
     \/ /\ pc' = "fin"
        /\ resultados_dfs' = resultados_dfs
        /\ retorno' = "excepcion"
  /\ UNCHANGED << pydantic, full_text, i, respuesta, ultimo, prompt, estado,
                  archivo, consola, cargas, invocaciones, pausas, escrituras >>

\* One iteration up to the end of its try/except: build the chain, invoke
\* it, store the DataFrame of the task.
Invocar ==
  /\ pc = "invocar"
  /\ \E resp \in Respuestas :
       LET tarea == TAREAS_EXTRACCION[i]
           res   == Invoke(resp, pydantic)
       IN  /\ prompt' = [descripcion |-> tarea.descripcion, text |-> full_text]
           /\ respuesta' = resp
           /\ invocaciones' = [invocaciones EXCEPT ![i] = @ + 1]
           /\ resultados_dfs' = Asignar(resultados_dfs, tarea.id, DataFrameDeTarea(res))
           /\ estado' = [estado EXCEPT ![i] =
                           IF res.ok THEN [fase |-> "poblada", items |-> res.items]
                                     ELSE [fase |-> "vacia_por_fallo", items |-> << >>]]
           /\ ultimo' = IF res.ok THEN "ok" ELSE res.causa
           /\ consola' = IF res.ok THEN "extraido" ELSE "error_extrayendo"
           /\ pc' = "dormir"
  /\ UNCHANGED << pydantic, full_text, i, archivo, retorno, cargas, pausas,
                  escrituras >>

\* Variant: the for loop skips every other task.
SiguienteIndiceDoble(k) == k + 2

\* The index of the next iteration of the for loop.
SiguienteIndice(k) == k + 1

\* Variant: the pause placed at the end of the try body.
PausasSoloTrasExito(n, u) == IF u = "ok" THEN n + 1 ELSE n

\* The sleeps done once the pause after a task has run; u is how the
\* task's call ended.
PausasTrasTarea(n, u) == n + 1

\* time.sleep(1), then the for loop advances or ends.  The response of the
\* iteration is gone by then.
Dormir ==
  /\ pc = "dormir"
  /\ pausas' = PausasTrasTarea(pausas, ultimo)
  /\ respuesta' = SinRespuesta
  /\ i' = SiguienteIndice(i)
  /\ pc' = IF SiguienteIndice(i) <= NTareas THEN "invocar" ELSE "guardar"
  /\ UNCHANGED << pydantic, full_text, resultados_dfs, ultimo, prompt, estado,
                  archivo, retorno, consola, cargas, invocaciones, escrituras >>

\* Variant: the ExcelWriter block without its try/except.
RetornoSinCapturar == "excepcion"

\* How procesar_documento leaves when the ExcelWriter block raised: the
\* except branch prints and the function falls off its end.
RetornoTrasErrorGuardado == "normal"

\* try: with pd.ExcelWriter(...): one to_excel per entry / except: print.
\* A failed write leaves no file or a file whose content is not known.
Guardar ==
  /\ pc = "guardar"
  /\ escrituras' = escrituras + 1
  /\ pc' = "fin"
  /\ \/ /\ archivo' = [estado |-> "completo", hojas |-> Libro(resultados_dfs)]
        /\ consola' = "finalizado"
        /\ retorno' = "normal"
     \/ /\ archivo' \in { SinArchivo, [estado |-> "parcial", hojas |-> << >>] }
        /\ consola' = "error_guardando"
        /\ retorno' = RetornoTrasErrorGuardado
  /\ UNCHANGED << pydantic, full_text, i, resultados_dfs, respuesta, ultimo,
                  prompt, estado, cargas, invocaciones, pausas >>

Next == Cargar \/ Configurar \/ Invocar \/ Dormir \/ Guardar

Spec == Init /\ [][Next]_vars

\* Every call returns or raises, so an enabled step is eventually taken.
FairSpec == Spec /\ WF_vars(Next)

\* ------------------------------------------------------------------------
\* Validation of single records, over every shape of JSON object
\* ------------------------------------------------------------------------
ValoresJson == { Ausente, Nulo, Str("x"), Num("7") }

ObjetosJson ==
  [numero : ValoresJson, razon_social : ValoresJson,
   rut : ValoresJson, domicilio : ValoresJson]

\* The parser is handed a section made of the object alone, or of a
\* well-formed object followed by it.
InitValidar ==
  /\ pc = "validar"
  /\ pydantic \in VersionesPydantic
  /\ \E obj \in ObjetosJson :
       respuesta \in { [tipo |-> "json", causa |-> "", items |-> << obj >>],
                       [tipo |-> "json", causa |-> "", items |-> << Registro(2), obj >>] }
  /\ full_text = ""
  /\ i = 1
  /\ resultados_dfs = << >>
  /\ ultimo = "ninguno"
  /\ prompt = SinPrompt
  /\ estado = [k \in 1..NTareas |-> Pendiente]
  /\ archivo = SinArchivo
  /\ retorno = "en_curso"
  /\ consola = "cargando"
  /\ cargas = 0
  /\ invocaciones = [k \in 1..NTareas |-> 0]
  /\ pausas = 0
  /\ escrituras = 0

\* parser on the response: SeccionIndividual with its FilaEmpresa items.
Validar ==
  /\ pc = "validar"
  /\ LET res == Invoke(respuesta, pydantic)
     IN  /\ ultimo' = IF res.ok THEN "ok" ELSE res.causa
         /\ estado' = [estado EXCEPT ![i] =
                         IF res.ok THEN [fase |-> "poblada", items |-> res.items]
                                   ELSE [fase |-> "vacia_por_fallo", items |-> << >>]]
  /\ pc' = "validado"
  /\ UNCHANGED << pydantic, full_text, i, resultados_dfs, respuesta, prompt,
                  archivo, retorno, consola, cargas, invocaciones, pausas,
                  escrituras >>

NextValidar == Validar

SpecValidar == InitValidar /\ [][NextValidar]_vars

\* ------------------------------------------------------------------------
\* Properties
\* ------------------------------------------------------------------------
IdDe(k) == TAREAS_EXTRACCION[k].id

CuatroColumnas == << "numero", "razon_social", "rut", "domicilio" >>

ArchivoEscrito == archivo.estado = "completo"

\* C1: when the load and the final write both succeed, whatever each of
\* the seven tasks did, the workbook has exactly one sheet per registry
\* task, named by the task id, in registry order, and no other sheet.
C1_UnaHojaPorTarea ==
  ArchivoEscrito =>
    /\ Len(archivo.hojas) = NTareas
    /\ \A k \in 1..NTareas : archivo.hojas[k].nombre = IdDe(k)
    /\ \A k \in 1..NTareas :
         Cardinality({ h \in 1..Len(archivo.hojas) :
                         archivo.hojas[h].nombre = IdDe(k) }) = 1

\* A written workbook of a run with failed, empty and populated tasks.
C1_Testigo ==
  /\ ArchivoEscrito
  /\ \E k \in 1..NTareas : estado[k].fase = "vacia_por_fallo"
  /\ \E k \in 1..NTareas : estado[k].fase = "poblada" /\ Len(estado[k].items) = 0
  /\ \E k \in 1..NTareas : estado[k].fase = "poblada" /\ Len(estado[k].items) > 0

FallosDeLlamada == { "transporte", "autenticacion", "timeout", "esquema" }

\* C2: a task whose model call failed (client exception, timeout, or a
\* response the parser rejects) is marked failed and gets the frame with
\* the four columns and no row; in the written workbook its sheet exists
\* under its id with the four-column header and zero data rows.
C2_FalloDaHojaVacia ==
  /\ (pc = "dormir" /\ ultimo \in FallosDeLlamada) =>
        /\ estado[i].fase = "vacia_por_fallo"
        /\ TieneClave(resultados_dfs, IdDe(i))
        /\ Valor(resultados_dfs, IdDe(i)).columns = CuatroColumnas
        /\ Valor(resultados_dfs, IdDe(i)).rows = << >>
  /\ ArchivoEscrito =>
       \A k \in 1..NTareas :
         estado[k].fase = "vacia_por_fallo" =>
           /\ k <= Len(archivo.hojas)
           /\ archivo.hojas[k].nombre = IdDe(k)
           /\ archivo.hojas[k].encabezado = CuatroColumnas
           /\ Len(archivo.hojas[k].filas) = 0

\* Tasks 1-6 returned rows, task 7 timed out, and the workbook is written.
C2_Testigo ==
  /\ ArchivoEscrito
  /\ ultimo = "timeout"
  /\ estado[NTareas].fase = "vacia_por_fallo"
  /\ \A k \in 1..(NTareas - 1) :
       /\ estado[k].fase = "poblada"
       /\ Len(estado[k].items) > 0
       /\ Len(archivo.hojas[k].filas) = Len(estado[k].items)

\* The cell a JSON value of a valid record is expected to end in.
CeldaEsperada(j) == IF j.t = "str" THEN [t |-> "texto", v |-> j.v]
                                   ELSE [t |-> "vacia", v |-> ""]

\* The cell a validated field value is expected to end in.
CeldaDeValor(x) == IF x.t = "pystr" THEN [t |-> "texto", v |-> x.v]
                                    ELSE [t |-> "vacia", v |-> ""]

\* C3: a call that returned a valid response of N records stores N
\* items, in the order of the response, each with the response's four
\* values; in the written workbook the task's sheet has exactly N data
\* rows, in that order, with the values under numero, razon_social, rut,
\* domicilio in that column order.
C3_FilasSinPerdida ==
  /\ (pc = "dormir" /\ ultimo = "ok") =>
        /\ respuesta.tipo = "json"
        /\ estado[i].fase = "poblada"
        /\ Len(estado[i].items) = Len(respuesta.items)
        /\ \A r \in 1..Len(respuesta.items) :
             \A c \in 1..4 :
               CeldaDeValor(estado[i].items[r][CuatroColumnas[c]])
                 = CeldaEsperada(respuesta.items[r][CuatroColumnas[c]])
  /\ ArchivoEscrito =>
       \A k \in 1..NTareas :
         estado[k].fase = "poblada" =>
           /\ k <= Len(archivo.hojas)
           /\ archivo.hojas[k].nombre = IdDe(k)
           /\ Len(archivo.hojas[k].filas) = Len(estado[k].items)
           /\ \A r \in 1..Len(estado[k].items) :
                /\ archivo.hojas[k].encabezado = CuatroColumnas
                /\ Len(archivo.hojas[k].filas[r]) = 4
                /\ \A c \in 1..4 :
                     archivo.hojas[k].filas[r][c]
                       = CeldaDeValor(estado[k].items[r][CuatroColumnas[c]])

\* A written workbook with a sheet of no row and a sheet of MaxItems rows
\* from valid responses, an empty numero among them.
C3_Testigo ==
  /\ ArchivoEscrito
  /\ \E k \in 1..NTareas :
       estado[k].fase = "poblada" /\ Len(archivo.hojas[k].filas) = 0
  /\ \E k \in 1..NTareas :
       /\ estado[k].fase = "poblada"
       /\ Len(archivo.hojas[k].filas) = MaxItems
       /\ archivo.hojas[k].filas[1][1].t = "vacia"
       /\ archivo.hojas[k].filas[MaxItems][1].t = "texto"
       /\ archivo.hojas[k].filas[1] # archivo.hojas[k].filas[MaxItems]

TotalInvocaciones == invocaciones[1] + invocaciones[2] + invocaciones[3]
                       + invocaciones[4] + invocaciones[5] + invocaciones[6]
                       + invocaciones[7]

TresComoCadenas(obj) ==
  obj.razon_social.t = "str" /\ obj.rut.t = "str" /\ obj.domicilio.t = "str"

ObjetoValidado == respuesta.items[Len(respuesta.items)]

\* C4: a record is accepted exactly when razon_social, rut and domicilio
\* are all present as strings, whatever numero is (absent and null
\* included), and a rejected record rejects the whole section.
C4_ValidacionDeFila ==
  pc = "validado" =>
    /\ (ultimo = "ok") <=> TresComoCadenas(ObjetoValidado)
    /\ (ultimo # "ok") => estado[i].fase = "vacia_por_fallo"

\* C5: after a failed load the run is over at once: no model call was
\* made, the write block was never entered, no workbook exists, and no
\* step remains.
C5_FalloDeCargaAborta ==
  consola = "error_carga" =>
    /\ pc = "fin"
    /\ retorno = "normal"
    /\ TotalInvocaciones = 0
    /\ prompt = SinPrompt
    /\ escrituras = 0
    /\ archivo = SinArchivo
    /\ ~ ENABLED Next

\* The load has failed.
C5_Testigo == cargas = 1 /\ consola = "error_carga" /\ full_text = ""

FalloDeEscritura == escrituras = 1 /\ consola = "error_guardando"

\* C6 as stated: a failed write reaches the caller of procesar_documento
\* as an error.
C6_FalloDeEscrituraLlegaAlLlamador ==
  FalloDeEscritura => retorno = "excepcion"

\* C6 amended: a failed write is caught inside procesar_documento: the
\* error line is printed instead of the success line, no complete
\* workbook exists, and the function returns normally to its caller.
C6_FalloDeEscrituraCapturado ==
  FalloDeEscritura =>
    /\ pc = "fin"
    /\ retorno = "normal"
    /\ consola # "finalizado"
    /\ archivo.estado # "completo"

\* The write has failed after seven processed tasks.
C6_Testigo ==
  /\ FalloDeEscritura
  /\ pc = "fin"
  /\ \A k \in 1..NTareas : estado[k].fase # "pendiente"

\* C7: once the document is loaded, the run ends only after the write
\* block was entered with all seven tasks processed, whatever the backend
\* and the set-up of the client and parser did.
C7_SoloCargaYEscrituraAbortan ==
  (pc = "fin" /\ full_text # "") =>
    /\ escrituras = 1
    /\ \A k \in 1..NTareas : estado[k].fase # "pendiente"

Procesada(k) == estado[k].fase # "pendiente"

\* State part of C8: one load before anything else, at most one call per
\* task and only in registry order, at most one write and only once every
\* task has its result after exactly one call each.
C8_Orden ==
  /\ cargas <= 1
  /\ (pc # "cargar") => cargas = 1
  /\ \A k \in 1..NTareas :
       /\ invocaciones[k] <= 1
       /\ (invocaciones[k] = 1) <=> Procesada(k)
       /\ Procesada(k) => (full_text # "" /\ \A j \in 1..k : Procesada(j))
  /\ escrituras <= 1
  /\ (pc = "guardar" \/ escrituras = 1) =>
        \A k \in 1..NTareas : invocaciones[k] = 1 /\ Procesada(k)
  /\ (pc = "fin" /\ consola \in { "finalizado", "error_guardando" }) => escrituras = 1

\* Step part of C8: a call for task k+1 starts in a state where task k
\* already has its result and no write has happened; a write starts in a
\* state where all seven have theirs.
C8_Paso ==
  /\ \A k \in 1..NTareas :
       invocaciones'[k] # invocaciones[k] =>
         /\ invocaciones'[k] = invocaciones[k] + 1
         /\ escrituras = 0
         /\ \A j \in 1..(k - 1) : Procesada(j)
         /\ \A j \in 1..NTareas : j # k => invocaciones'[j] = invocaciones[j]
  /\ escrituras' # escrituras =>
         /\ escrituras' = escrituras + 1
         /\ \A k \in 1..NTareas : Procesada(k)
         /\ invocaciones' = invocaciones

\* C8: load once, then one call per task in registry order, each after
\* the previous task has its result, then one write after all seven
\* results; as each call returns or raises, the run ends.
C8_SecuencialYTermina ==
  /\ [] C8_Orden
  /\ [][C8_Paso]_vars
  /\ <>(pc = "fin")

\* The run ended after the write with one call made for each task.
C8_Testigo ==
  /\ pc = "fin"
  /\ escrituras = 1
  /\ cargas = 1
  /\ \A k \in 1..NTareas : invocaciones[k] = 1

\* C9: the pause runs after every task, failed or not: when task k is
\* about to be called k-1 pauses have run, while it waits for its pause
\* still k-1, and from the write step on exactly seven.
C9_UnaPausaPorTarea ==
  /\ pausas <= NTareas
  /\ (pc = "invocar") => (pausas = i - 1 /\ TotalInvocaciones = i - 1)
  /\ (pc = "dormir")  => (pausas = i - 1 /\ TotalInvocaciones = i)
  /\ (pc = "guardar" \/ escrituras = 1) => pausas = NTareas
  /\ (pc \in { "cargar", "configurar" }) => pausas = 0

\* The write step is reached after failed and successful tasks.
C9_Testigo ==
  /\ pc = "guardar"
  /\ pausas = NTareas
  /\ \E k \in 1..NTareas : estado[k].fase = "vacia_por_fallo"
  /\ \E k \in 1..NTareas : estado[k].fase = "poblada"

ClavesEsperadas(n) == [k \in 1..n |-> IdDe(k)]

NumProcesadas == Cardinality({ k \in 1..NTareas : Procesada(k) })

\* State part of C10: after k tasks the keys of the mapping are the first
\* k ids, and a task waiting for its pause is populated exactly when its
\* own call succeeded, with the input built from its own description and
\* the loaded text.
C10_Claves ==
  /\ (pc \in { "invocar", "dormir", "guardar" } \/ escrituras = 1) =>
        Claves(resultados_dfs) = ClavesEsperadas(NumProcesadas)
  /\ (pc = "dormir") =>
        /\ NumProcesadas = i
        /\ (estado[i].fase = "poblada") <=> (ultimo = "ok")
        /\ (estado[i].fase = "vacia_por_fallo") <=> (ultimo \in FallosDeLlamada)
        /\ prompt = [descripcion |-> TAREAS_EXTRACCION[i].descripcion,
                     text |-> full_text]

\* Step part of C10: a processed task keeps its phase, its items and its
\* entry in every later step; pending tasks change one at a time, straight
\* to a terminal phase; the mapping grows by at most one entry; the loaded
\* text never changes.
C10_Paso ==
  /\ \A k \in 1..NTareas :
       Procesada(k) =>
         /\ estado'[k] = estado[k]
         /\ TieneClave(resultados_dfs', IdDe(k))
         /\ Valor(resultados_dfs', IdDe(k)) = Valor(resultados_dfs, IdDe(k))
  /\ \A k \in 1..NTareas :
       estado'[k] # estado[k] =>
         /\ estado'[k].fase \in { "poblada", "vacia_por_fallo" }
         /\ \A j \in 1..NTareas : j # k => estado'[j] = estado[j]
         /\ Claves(resultados_dfs') = Append(Claves(resultados_dfs), IdDe(k))
  /\ Len(resultados_dfs') <= Len(resultados_dfs) + 1
  /\ (full_text # "") => full_text' = full_text

\* C10: tasks are isolated: each goes from pending to one terminal phase
\* set by its own call; processing it adds its entry only and leaves the
\* earlier entries and the document text as they were.
C10_TareasAisladas ==
  /\ [] C10_Claves
  /\ [][C10_Paso]_vars

\* A failed task between two populated ones, all three still in place.
C10_Testigo ==
  /\ pc = "dormir"
  /\ i = 3
  /\ estado[1].fase = "poblada" /\ Len(estado[1].items) > 0
  /\ estado[2].fase = "vacia_por_fallo"
  /\ estado[3].fase = "poblada" /\ Len(estado[3].items) > 0
  /\ Valor(resultados_dfs, IdDe(1)).rows # << >>
  /\ full_text # ""

====
